---- MODULE Spec2Model ----
(***************************************************************************)
(* A model of one pipeline run of the CI/CD backend.                       *)
(*                                                                         *)
(*   runPipelineLogic   internal/api/runner.go (the rollback-capable       *)
(*                      orchestrator)                                      *)
(*   executePipeline    the stage/job scheduler, the only implementation   *)
(*                      of the scheduler in the sources; it stands for    *)
(*                      s.pipelineExecutor.Execute of runner.go            *)
(*   git.Clone/Cleanup  internal/git/git.go                                *)
(*                                                                         *)
(* External collaborators (git, the container runtime, the database, the  *)
(* deployment executor) answer nondeterministically: every result the     *)
(* code branches on is drawn with \E.  Update* calls of the database      *)
(* return nothing the code reads; they are modelled as writes that take   *)
(* effect.                                                                 *)
(***************************************************************************)
EXTENDS Integers, Sequences, FiniteSets, TLC

\* ---------------------------------------------------------------- bounds
NumJobs == 2
NumStages == 2
MaxExit == 1
\* collectLogs: lines of one container stream, and how many of them may be
\* other than a plain one-character line
MaxLines == 11
MaxSpecial == 2
\* bufio.MaxScanTokenSize (64 * 1024 in Go), scaled down: the scanner of
\* collectLogs is created by bufio.NewScanner and keeps that default
MaxScanTokenSize == 3
\* entries of one job.Script
MaxCmds == 2
\* simple commands of one entry
MaxAlts == 2
\* characters of a repository name
MaxName == 2
\* seconds the wall clock advances while runs are followed
MaxClock == 1
\* characters of an argument of SanitizeProjectName
MaxInput == 4

\* ------------------------------------------------------- program constants
\* exitCode := 1 written for a job whose pull or start failed
SentinelExit == 1
\* "Store in batches of 10"
BatchSize == 10
\* the null byte removed from every log line
NUL == 0
\* params.CommitHash[:8]
PrefixLen == 8

Jobs == 1..NumJobs
\* config.Stages: stage i of the model is config.Stages[i-1], the declared order
Stages == 1..NumStages
\* a job name that is not a key of config.Jobs
NotInConfig == 0
NoJob == 0
\* exit_code column before any exit code is written
NullExit == -1

workspaceDir == "workspaceDir"
rollbackDir == "rollbackDir"

\* models.PipelineRunParams as the two wrappers fill it in
params ==
    [RepoURL |-> "url", RepoName |-> "repo", Branch |-> "branch",
     CommitHash |-> "head", AccessToken |-> "token",
     PipelineFilename |-> "ci.yml", DeploymentFilename |-> "compose.yml",
     ProjectID |-> 1, PipelineID |-> 1]

\* lastPipeline.CommitHash, the commit of the last successful pipeline
LastCommitHash == "last"

\* rollbackParams := params; rollbackParams.CommitHash = lastPipeline.CommitHash
rollbackParams == [params EXCEPT !.CommitHash = LastCommitHash]

\* results of git.Clone: nil, an error of `git clone`, an error of Checkout
CloneResults == {"ok", "clone_failed", "checkout_failed"}

VARIABLES
    pc,              \* position of runPipelineLogic / executePipeline
    fs,              \* directories that exist under cicd-workspaces
    deferred,        \* stack of directories with a deferred git.Cleanup
    config,          \* parsed config: job -> stage (NotInConfig: no such job)
    pipelineStatus,  \* pipelines.status of params.PipelineID
    pipelineSuccess, \* local of runPipelineLogic
    preJobs,         \* job records pre-created by runPipelineLogic
    depHist,         \* statuses written to the deployment record, in order
    depLog,          \* deployment log entries, in order
    deployCalls,     \* invocations of deploymentExecutor.Execute, in order
    deployResult,    \* outcome of the first deployment attempt
    lastPipeline,    \* answer of GetLastSuccessfulPipeline
    rollbackSuccess, \* local of runPipelineLogic
    rbFetches,       \* number of rollback git.Clone calls
    stageIdx,        \* executePipeline: index of the stage being run
    todo,            \* executePipeline: jobs of the stage not yet visited
    cur,             \* executePipeline: the job being run
    statusCode,      \* executePipeline: value returned by WaitForContainer
    schedSuccess,    \* executePipeline: its local pipelineSuccess
    pulled,          \* jobs for which PullImage was called
    started,         \* jobs for which RunJobWithVolume was called
    containers,      \* jobs whose container was created and not removed
    outcome,         \* job -> what happened to it
    jobHist,         \* job -> statuses written to its record, in order
    jobExit,         \* job -> exit_code column of its record
    logPc,           \* collectLogs: position of the scanning loop
    prodPc,          \* collectLogs: position of the StdCopy goroutine
    emitted,         \* lines the container writes to its output, in order
    stream,          \* lines StdCopy has not yet read from the reader
    pipe,            \* io.Pipe: the write in flight (at most one)
    pipeClosed,      \* pw.Close() was called
    demuxErr,        \* StdCopy returned an error
    jobID,           \* collectLogs: its jobID argument
    logBatch,        \* collectLogs: its local logBatch
    persisted,       \* batches passed to CreateLogBatch, in call order
    dbErr,           \* call sites where a Create* call returned an error
    abort,           \* why runPipelineLogic returned before pre-registration
    containerExit,   \* exit status of the process of the current container
    script,          \* job.Script of the job run as one container
    ran,             \* script entries of which the shell ran some command
    clock,           \* time.Now().Unix()
    runs,            \* concurrent runs: their parameters and workspace
    sanName,         \* SanitizeProjectName: its argument
    sanResult        \* SanitizeProjectName: its result

runVars == <<fs, deferred, config, pipelineStatus, pipelineSuccess, preJobs,
             depHist, depLog, deployCalls, deployResult, lastPipeline,
             rollbackSuccess, rbFetches>>
schedVars == <<stageIdx, todo, cur, statusCode, schedSuccess, pulled, started,
               containers, outcome, jobHist, jobExit>>
logVars == <<logPc, prodPc, emitted, stream, pipe, pipeClosed, demuxErr, jobID,
             logBatch, persisted>>
histVars == <<dbErr, abort, containerExit>>
scriptVars == <<script, ran>>
sanVars == <<sanName, sanResult>>
wsVars == <<clock, runs, sanVars>>
vars == <<pc, runVars, schedVars, logVars, histVars, scriptVars, wsVars>>

\* ---------------------------------------------------------------- helpers
Last(s) == s[Len(s)]

Range(s) == {s[i] : i \in 1..Len(s)}

\* job records and the deployment record: the status column
JobStatus(j) == IF jobHist[j] = <<>> THEN "absent" ELSE Last(jobHist[j])

DepStatus == IF depHist = <<>> THEN "absent" ELSE Last(depHist)

\* jobID > 0: CreateJob of executePipeline returned a record
HasRecord(j) == jobHist[j] # <<>>

ConfigJobs(c) == {j \in Jobs : c[j] # NotInConfig}

\* (mutation: the stage filter lets the jobs of later stages through)
JobsOfStageAny(c, s) == {j \in Jobs : c[j] # NotInConfig /\ c[j] >= s}

\* the jobs the inner loop does not `continue` past: job.Stage == stageName
JobsOfStage(c, s) == {j \in Jobs : c[j] = s}

\* git.Clone: the destination exists when `git clone` succeeded, also when the
\* checkout that follows it failed
CloneFs(dirs, dest, res) ==
    IF res \in {"ok", "checkout_failed"} THEN dirs \cup {dest} ELSE dirs

\* the deferred git.Cleanup calls (os.RemoveAll) of runPipelineLogic, run
\* when it returns
RunDeferred(dirs, stack) == dirs \ Range(stack)

\* (mutation: the deployment is not guarded by the scheduler's result)
ShouldDeployAlways(ok) == TRUE

\* `if pipelineSuccess {` before the deployment
ShouldDeploy(ok) == ok

\* (mutation: the rollback is attempted without a prior successful pipeline)
RollbackWantedAlways(last) == TRUE

\* `if lastPipeline == nil { skip } else { rollback }`
RollbackWanted(last) == last # "nil"

\* status written by UpdateJobStatus after the wait
StatusOfCode(code) == IF code # 0 THEN "failed" ELSE "success"

Configs == [Jobs -> {NotInConfig} \cup Stages]

\* ------------------------------------------------------------------- Init
RunInit ==
    /\ fs = {}
    /\ deferred = <<>>
    /\ config = [j \in Jobs |-> NotInConfig]
    /\ pipelineStatus = "running"
    /\ pipelineSuccess = FALSE
    /\ preJobs = {}
    /\ depHist = <<>>
    /\ depLog = <<>>
    /\ deployCalls = <<>>
    /\ deployResult = "none"
    /\ lastPipeline = "unqueried"
    /\ rollbackSuccess = FALSE
    /\ rbFetches = 0
    /\ stageIdx = 0
    /\ todo = {}
    /\ cur = NoJob
    /\ statusCode = 0
    /\ schedSuccess = TRUE
    /\ pulled = {}
    /\ started = {}
    /\ containers = {}
    /\ outcome = [j \in Jobs |-> "none"]
    /\ jobHist = [j \in Jobs |-> <<>>]
    /\ jobExit = [j \in Jobs |-> NullExit]
    /\ dbErr = {}
    /\ abort = "none"
    /\ containerExit = 0

\* collectLogs is not running
LogIdle ==
    /\ logPc = "idle"
    /\ prodPc = "idle"
    /\ emitted = <<>>
    /\ stream = <<>>
    /\ pipe = <<>>
    /\ pipeClosed = FALSE
    /\ demuxErr = FALSE
    /\ jobID = 0
    /\ logBatch = <<>>
    /\ persisted = <<>>

\* no script is being followed
ScriptIdle ==
    /\ script = <<>>
    /\ ran = {}

\* no other run is being followed
WsIdle ==
    /\ clock = 0
    /\ runs = <<>>
    /\ sanName = <<>>
    /\ sanResult = <<>>

Init ==
    /\ pc = "clone"
    /\ RunInit
    /\ LogIdle
    /\ ScriptIdle
    /\ WsIdle

\* ------------------------------------------------------- runPipelineLogic
\* `return`: the deferred cleanups run, the run is over
Return ==
    /\ pc' = "done"
    /\ fs' = RunDeferred(fs, deferred)

\* git.Clone of the triggering commit into the workspace
CloneRepository ==
    /\ pc = "clone"
    /\ \E res \in CloneResults :
        IF res = "ok"
        THEN /\ fs' = CloneFs(fs, workspaceDir, res)
             /\ deferred' = Append(deferred, workspaceDir)
             /\ pc' = "stat"
             /\ UNCHANGED <<pipelineStatus, abort>>
        ELSE /\ fs' = CloneFs(fs, workspaceDir, res)
             /\ pipelineStatus' = "failed"
             /\ abort' = "fetch"
             /\ pc' = "done"
             /\ UNCHANGED deferred
    /\ UNCHANGED <<config, pipelineSuccess, preJobs, depHist, depLog,
                   deployCalls, deployResult, lastPipeline, rollbackSuccess,
                   rbFetches, schedVars>>
    /\ UNCHANGED <<logVars, scriptVars, wsVars>>
    /\ UNCHANGED <<dbErr, containerExit>>

\* os.Stat of the CI config file
FindConfig ==
    /\ pc = "stat"
    /\ \E exists \in BOOLEAN :
        IF exists
        THEN /\ pc' = "parse"
             /\ UNCHANGED <<fs, pipelineStatus, abort>>
        ELSE /\ pipelineStatus' = "failed"
             /\ abort' = "no_config"
             /\ Return
    /\ UNCHANGED <<deferred, config, pipelineSuccess, preJobs, depHist, depLog,
                   deployCalls, deployResult, lastPipeline, rollbackSuccess,
                   rbFetches, schedVars>>
    /\ UNCHANGED <<logVars, scriptVars, wsVars>>
    /\ UNCHANGED <<dbErr, containerExit>>

\* (mutation: a parse error is recorded but does not return)
ParseConfigNoAbort ==
    /\ pc = "parse"
    /\ \/ /\ pipelineStatus' = "failed"
          /\ abort' = "parse"
          /\ pc' = "precreate_jobs"
          /\ UNCHANGED <<config, fs>>
       \/ /\ \E c \in Configs : config' = c
          /\ pc' = "precreate_jobs"
          /\ UNCHANGED <<fs, pipelineStatus, abort>>
    /\ UNCHANGED <<deferred, pipelineSuccess, preJobs, depHist, depLog,
                   deployCalls, deployResult, lastPipeline, rollbackSuccess,
                   rbFetches, schedVars>>
    /\ UNCHANGED <<logVars, scriptVars, wsVars>>
    /\ UNCHANGED <<dbErr, containerExit>>

\* p.Parse()
ParseConfig ==
    /\ pc = "parse"
    /\ \/ /\ pipelineStatus' = "failed"
          /\ abort' = "parse"
          /\ Return
          /\ UNCHANGED config
       \/ /\ \E c \in Configs : config' = c
          /\ pc' = "precreate_jobs"
          /\ UNCHANGED <<fs, pipelineStatus, abort>>
    /\ UNCHANGED <<deferred, pipelineSuccess, preJobs, depHist, depLog,
                   deployCalls, deployResult, lastPipeline, rollbackSuccess,
                   rbFetches, schedVars>>
    /\ UNCHANGED <<logVars, scriptVars, wsVars>>
    /\ UNCHANGED <<dbErr, containerExit>>

\* the pre-create loop: CreateJob for every job, stage by stage; an error
\* returns at once, leaving the records created so far
PreCreateJobs ==
    /\ pc = "precreate_jobs"
    /\ \/ /\ preJobs' = ConfigJobs(config)
          /\ pc' = "precreate_deployment"
          /\ UNCHANGED <<fs, dbErr>>
       \/ /\ \E j \in ConfigJobs(config) :
               \E S \in SUBSET (JobsOfStage(config, config[j]) \ {j}) :
                   preJobs' = {k \in ConfigJobs(config) : config[k] < config[j]} \cup S
          /\ dbErr' = dbErr \cup {"CreateJob"}
          /\ Return
    /\ UNCHANGED <<deferred, config, pipelineStatus, pipelineSuccess, depHist,
                   depLog, deployCalls, deployResult, lastPipeline,
                   rollbackSuccess, rbFetches, schedVars>>
    /\ UNCHANGED <<logVars, scriptVars, wsVars>>
    /\ UNCHANGED <<abort, containerExit>>

\* CreatePendingDeployment, then the call of the scheduler
PreCreateDeployment ==
    /\ pc = "precreate_deployment"
    /\ \/ /\ dbErr' = dbErr \cup {"CreatePendingDeployment"}
          /\ Return
          /\ UNCHANGED <<depHist, stageIdx>>
       \/ /\ depHist' = Append(depHist, "pending")
          /\ stageIdx' = 1
          /\ pc' = "exec_stage"
          /\ UNCHANGED <<fs, dbErr>>
    /\ UNCHANGED <<deferred, config, pipelineStatus, pipelineSuccess, preJobs,
                   depLog, deployCalls, deployResult, lastPipeline,
                   rollbackSuccess, rbFetches, todo, cur, statusCode,
                   schedSuccess, pulled, started, containers, outcome, jobHist,
                   jobExit>>
    /\ UNCHANGED <<logVars, scriptVars, wsVars>>
    /\ UNCHANGED <<abort, containerExit>>

\* -------------------------------------------------------- executePipeline
\* `for _, stageName := range config.Stages`: the next stage, or the final
\* `return pipelineSuccess` into runPipelineLogic
ExecStage ==
    /\ pc = "exec_stage"
    /\ IF stageIdx \in Stages
       THEN /\ todo' = JobsOfStage(config, stageIdx)
            /\ pc' = "exec_pick"
            /\ UNCHANGED pipelineSuccess
       ELSE /\ pipelineSuccess' = schedSuccess
            /\ pc' = "decide"
            /\ UNCHANGED todo
    /\ UNCHANGED <<fs, deferred, config, pipelineStatus, preJobs, depHist,
                   depLog, deployCalls, deployResult, lastPipeline,
                   rollbackSuccess, rbFetches, stageIdx, cur, statusCode,
                   schedSuccess, pulled, started, containers, outcome, jobHist,
                   jobExit>>
    /\ UNCHANGED <<logVars, scriptVars, wsVars>>
    /\ UNCHANGED histVars

\* `for jobName, job := range config.Jobs`: Go visits the keys of a map in
\* an unspecified order, each once; the stage ends when none is left
PickJob ==
    /\ pc = "exec_pick"
    /\ IF todo # {}
       THEN /\ \E j \in todo :
                /\ cur' = j
                /\ todo' = todo \ {j}
            /\ pc' = "exec_create"
            /\ UNCHANGED stageIdx
       ELSE /\ stageIdx' = stageIdx + 1
            /\ pc' = "exec_stage"
            /\ UNCHANGED <<cur, todo>>
    /\ UNCHANGED <<runVars, statusCode, schedSuccess, pulled, started,
                   containers, outcome, jobHist, jobExit>>
    /\ UNCHANGED <<logVars, scriptVars, wsVars>>
    /\ UNCHANGED histVars

\* CreateJob and UpdateJobStatus(jobID, "running", nil); on an error of
\* CreateJob jobID stays 0 and nothing is written for this job
CreateJobRecord ==
    /\ pc = "exec_create"
    /\ \E err \in BOOLEAN :
        /\ jobHist' = IF err THEN jobHist
                      ELSE [jobHist EXCEPT ![cur] = <<"pending", "running">>]
        /\ dbErr' = IF err THEN dbErr \cup {"executePipeline.CreateJob"}
                    ELSE dbErr
    /\ pc' = "exec_pull"
    /\ UNCHANGED <<runVars, stageIdx, todo, cur, statusCode, schedSuccess,
                   pulled, started, containers, outcome, jobExit>>
    /\ UNCHANGED <<logVars, scriptVars, wsVars>>
    /\ UNCHANGED <<abort, containerExit>>

\* the failure branch shared by PullImage and RunJobWithVolume: the record,
\* when there is one, becomes failed with exit code 1; pipelineSuccess =
\* false; `continue`
JobNotStarted(why) ==
    /\ outcome' = [outcome EXCEPT ![cur] = why]
    /\ jobHist' = IF HasRecord(cur)
                  THEN [jobHist EXCEPT ![cur] = Append(@, "failed")]
                  ELSE jobHist
    /\ jobExit' = IF HasRecord(cur)
                  THEN [jobExit EXCEPT ![cur] = SentinelExit]
                  ELSE jobExit
    /\ schedSuccess' = FALSE
    /\ pc' = "exec_pick"

\* s.docker.PullImage(job.Image)
PullImage ==
    /\ pc = "exec_pull"
    /\ pulled' = pulled \cup {cur}
    /\ \E err \in BOOLEAN :
        IF err
        THEN JobNotStarted("pull_failed")
        ELSE /\ pc' = "exec_run"
             /\ UNCHANGED <<outcome, jobHist, jobExit, schedSuccess>>
    /\ UNCHANGED <<runVars, stageIdx, todo, cur, statusCode, started,
                   containers>>
    /\ UNCHANGED <<logVars, scriptVars, wsVars>>
    /\ UNCHANGED histVars

\* s.docker.RunJobWithVolume: ContainerCreate, then ContainerStart; an error
\* of ContainerStart leaves the created container behind.  The started
\* container runs the job's script to some exit status
RunJobWithVolume ==
    /\ pc = "exec_run"
    /\ started' = started \cup {cur}
    /\ \E res \in {"ok", "create_failed", "start_failed"} :
        /\ containers' = IF res = "create_failed" THEN containers
                         ELSE containers \cup {cur}
        /\ IF res = "ok"
           THEN /\ pc' = "exec_wait"
                /\ \E code \in 0..MaxExit : containerExit' = code
                /\ UNCHANGED <<outcome, jobHist, jobExit, schedSuccess>>
           ELSE /\ JobNotStarted("start_failed")
                /\ UNCHANGED containerExit
    /\ UNCHANGED <<runVars, stageIdx, todo, cur, statusCode, pulled>>
    /\ UNCHANGED <<logVars, scriptVars, wsVars>>
    /\ UNCHANGED <<dbErr, abort>>

\* s.collectLogs (modelled on its own below), then WaitForContainer: the
\* exit status, or 0 together with an error that is only logged
WaitForContainer ==
    /\ pc = "exec_wait"
    /\ \/ /\ statusCode' = 0
          /\ outcome' = [outcome EXCEPT ![cur] = "wait_error"]
       \/ /\ statusCode' = containerExit
          /\ outcome' = [outcome EXCEPT ![cur] =
                           IF containerExit = 0 THEN "exit_zero" ELSE "exit_nonzero"]
    /\ pc' = "exec_update"
    /\ UNCHANGED <<runVars, stageIdx, todo, cur, schedSuccess, pulled, started,
                   containers, jobHist, jobExit>>
    /\ UNCHANGED <<logVars, scriptVars, wsVars>>
    /\ UNCHANGED histVars

\* (mutation: a non-zero status code does not return, the loop goes on)
UpdateJobContinue ==
    /\ pc = "exec_update"
    /\ jobHist' = IF HasRecord(cur)
                  THEN [jobHist EXCEPT ![cur] = Append(@, StatusOfCode(statusCode))]
                  ELSE jobHist
    /\ jobExit' = IF HasRecord(cur)
                  THEN [jobExit EXCEPT ![cur] = statusCode]
                  ELSE jobExit
    /\ schedSuccess' = (schedSuccess /\ statusCode = 0)
    /\ pc' = "exec_pick"
    /\ UNCHANGED <<runVars, stageIdx, todo, cur, statusCode, pulled, started,
                   containers, outcome>>
    /\ UNCHANGED <<logVars, scriptVars, wsVars>>
    /\ UNCHANGED histVars

\* UpdateJobStatus(jobID, status, &exitCode); a non-zero status code returns
\* false from executePipeline, otherwise the loop goes on
UpdateJob ==
    /\ pc = "exec_update"
    /\ jobHist' = IF HasRecord(cur)
                  THEN [jobHist EXCEPT ![cur] = Append(@, StatusOfCode(statusCode))]
                  ELSE jobHist
    /\ jobExit' = IF HasRecord(cur)
                  THEN [jobExit EXCEPT ![cur] = statusCode]
                  ELSE jobExit
    /\ IF statusCode # 0
       THEN /\ schedSuccess' = FALSE
            /\ pipelineSuccess' = FALSE
            /\ pc' = "decide"
       ELSE /\ pc' = "exec_pick"
            /\ UNCHANGED <<schedSuccess, pipelineSuccess>>
    /\ UNCHANGED <<fs, deferred, config, pipelineStatus, preJobs, depHist,
                   depLog, deployCalls, deployResult, lastPipeline,
                   rollbackSuccess, rbFetches, stageIdx, todo, cur, statusCode,
                   pulled, started, containers, outcome>>
    /\ UNCHANGED <<logVars, scriptVars, wsVars>>
    /\ UNCHANGED histVars

\* ------------------------------------------- runPipelineLogic, deployment
\* `if pipelineSuccess {`: UpdateDeploymentStatus(deployment.ID, "deploying")
MarkDeploying ==
    /\ pc = "decide"
    /\ ShouldDeploy(pipelineSuccess)
    /\ depHist' = Append(depHist, "deploying")
    /\ pc' = "deploy"
    /\ UNCHANGED <<fs, deferred, config, pipelineStatus, pipelineSuccess,
                   preJobs, depLog, deployCalls, deployResult, lastPipeline,
                   rollbackSuccess, rbFetches, schedVars>>
    /\ UNCHANGED <<logVars, scriptVars, wsVars>>
    /\ UNCHANGED histVars

\* the scheduler returned false: straight to the final status
SkipDeployment ==
    /\ pc = "decide"
    /\ ~ShouldDeploy(pipelineSuccess)
    /\ pc' = "final"
    /\ UNCHANGED <<runVars, schedVars>>
    /\ UNCHANGED <<logVars, scriptVars, wsVars>>
    /\ UNCHANGED histVars

\* s.deploymentExecutor.Execute(project, params, workspaceDir, ...); on
\* success the deployment record becomes success
Deploy ==
    /\ pc = "deploy"
    /\ deployCalls' = Append(deployCalls, [dir |-> workspaceDir, args |-> params])
    /\ \E err \in BOOLEAN :
        IF err
        THEN /\ deployResult' = "err"
             /\ pc' = "rollback_lookup"
             /\ UNCHANGED depHist
        ELSE /\ deployResult' = "ok"
             /\ depHist' = Append(depHist, "success")
             /\ pc' = "final"
    /\ UNCHANGED <<fs, deferred, config, pipelineStatus, pipelineSuccess,
                   preJobs, depLog, lastPipeline, rollbackSuccess, rbFetches,
                   schedVars>>
    /\ UNCHANGED <<logVars, scriptVars, wsVars>>
    /\ UNCHANGED histVars

\* rollbackSuccess := false; GetLastSuccessfulPipeline(project.ID)
LookupLastPipeline ==
    /\ pc = "rollback_lookup"
    /\ rollbackSuccess' = FALSE
    /\ \E last \in {"nil", "found"} :
        /\ lastPipeline' = last
        /\ pc' = IF RollbackWanted(last) THEN "rollback_clone" ELSE "set_deployment"
    /\ UNCHANGED <<fs, deferred, config, pipelineStatus, pipelineSuccess,
                   preJobs, depHist, depLog, deployCalls, deployResult,
                   rbFetches, schedVars>>
    /\ UNCHANGED <<logVars, scriptVars, wsVars>>
    /\ UNCHANGED histVars

\* git.Clone of the last successful commit into rollbackDir; on success
\* `defer git.Cleanup(rollbackDir)`
RollbackClone ==
    /\ pc = "rollback_clone"
    /\ rbFetches' = rbFetches + 1
    /\ \E res \in CloneResults :
        /\ fs' = CloneFs(fs, rollbackDir, res)
        /\ IF res = "ok"
           THEN /\ deferred' = Append(deferred, rollbackDir)
                /\ pc' = "rollback_log"
           ELSE /\ pc' = "set_deployment"
                /\ UNCHANGED deferred
    /\ UNCHANGED <<config, pipelineStatus, pipelineSuccess, preJobs, depHist,
                   depLog, deployCalls, deployResult, lastPipeline,
                   rollbackSuccess, schedVars>>
    /\ UNCHANGED <<logVars, scriptVars, wsVars>>
    /\ UNCHANGED histVars

\* (mutation: the rollback-start marker is not written)
RollbackLogSkipped ==
    /\ pc = "rollback_log"
    /\ pc' = "rollback_deploy"
    /\ UNCHANGED <<fs, deferred, config, pipelineStatus, pipelineSuccess,
                   preJobs, depHist, depLog, deployCalls, deployResult,
                   lastPipeline, rollbackSuccess, rbFetches, schedVars>>
    /\ UNCHANGED <<logVars, scriptVars, wsVars>>
    /\ UNCHANGED histVars

\* CreateDeploymentLog(deployment.ID, "=== ROLLBACK STARTED ===")
RollbackLog ==
    /\ pc = "rollback_log"
    /\ depLog' = Append(depLog, "=== ROLLBACK STARTED ===")
    /\ pc' = "rollback_deploy"
    /\ UNCHANGED <<fs, deferred, config, pipelineStatus, pipelineSuccess,
                   preJobs, depHist, deployCalls, deployResult, lastPipeline,
                   rollbackSuccess, rbFetches, schedVars>>
    /\ UNCHANGED <<logVars, scriptVars, wsVars>>
    /\ UNCHANGED histVars

\* s.deploymentExecutor.Execute(project, rollbackParams, rollbackDir, ...)
RollbackDeploy ==
    /\ pc = "rollback_deploy"
    /\ deployCalls' = Append(deployCalls, [dir |-> rollbackDir, args |-> rollbackParams])
    /\ \E rbErr \in BOOLEAN : rollbackSuccess' = ~rbErr
    /\ pc' = "set_deployment"
    /\ UNCHANGED <<fs, deferred, config, pipelineStatus, pipelineSuccess,
                   preJobs, depHist, depLog, deployResult, lastPipeline,
                   rbFetches, schedVars>>
    /\ UNCHANGED <<logVars, scriptVars, wsVars>>
    /\ UNCHANGED histVars

\* (mutation: `pipelineSuccess = false` is missing)
SetDeploymentKeepSuccess ==
    /\ pc = "set_deployment"
    /\ depHist' = Append(depHist, IF rollbackSuccess THEN "rolled_back" ELSE "failed")
    /\ pc' = "final"
    /\ UNCHANGED <<fs, deferred, config, pipelineStatus, pipelineSuccess,
                   preJobs, depLog, deployCalls, deployResult, lastPipeline,
                   rollbackSuccess, rbFetches, schedVars>>
    /\ UNCHANGED <<logVars, scriptVars, wsVars>>
    /\ UNCHANGED histVars

\* pipelineSuccess = false; the deployment record becomes rolled_back or
\* failed
SetDeployment ==
    /\ pc = "set_deployment"
    /\ pipelineSuccess' = FALSE
    /\ depHist' = Append(depHist, IF rollbackSuccess THEN "rolled_back" ELSE "failed")
    /\ pc' = "final"
    /\ UNCHANGED <<fs, deferred, config, pipelineStatus, preJobs, depLog,
                   deployCalls, deployResult, lastPipeline, rollbackSuccess,
                   rbFetches, schedVars>>
    /\ UNCHANGED <<logVars, scriptVars, wsVars>>
    /\ UNCHANGED histVars

\* "Update final pipeline status": success and return, or failed
FinalPipelineStatus ==
    /\ pc = "final"
    /\ IF pipelineSuccess
       THEN /\ pipelineStatus' = "success"
            /\ Return
       ELSE /\ pipelineStatus' = "failed"
            /\ pc' = "final_deployment"
            /\ UNCHANGED fs
    /\ UNCHANGED <<deferred, config, pipelineSuccess, preJobs, depHist, depLog,
                   deployCalls, deployResult, lastPipeline, rollbackSuccess,
                   rbFetches, schedVars>>
    /\ UNCHANGED <<logVars, scriptVars, wsVars>>
    /\ UNCHANGED histVars

\* the failure branch goes on: UpdateDeploymentStatus(deployment.ID, "failed")
FinalDeploymentStatus ==
    /\ pc = "final_deployment"
    /\ depHist' = Append(depHist, "failed")
    /\ Return
    /\ UNCHANGED <<deferred, config, pipelineStatus, pipelineSuccess, preJobs,
                   depLog, deployCalls, deployResult, lastPipeline,
                   rollbackSuccess, rbFetches, schedVars>>
    /\ UNCHANGED <<logVars, scriptVars, wsVars>>
    /\ UNCHANGED histVars

Next ==
    \/ CloneRepository
    \/ FindConfig
    \/ ParseConfig
    \/ PreCreateJobs
    \/ PreCreateDeployment
    \/ ExecStage
    \/ PickJob
    \/ CreateJobRecord
    \/ PullImage
    \/ RunJobWithVolume
    \/ WaitForContainer
    \/ UpdateJob
    \/ MarkDeploying
    \/ SkipDeployment
    \/ Deploy
    \/ LookupLastPipeline
    \/ RollbackClone
    \/ RollbackLog
    \/ RollbackDeploy
    \/ SetDeployment
    \/ FinalPipelineStatus
    \/ FinalDeploymentStatus

Spec == Init /\ [][Next]_vars

\* ------------------------------------------------------------ collectLogs
\* Lines are sequences of characters; character i marks the i-th line of the
\* stream, NUL is the null byte.  A line is what bufio.ScanLines delimits.
PlainLine(i) == <<i>>
LongLine(i) == [k \in 1..MaxScanTokenSize |-> i]

\* strings.ReplaceAll(line, "\x00", "")
NotNul(c) == c # NUL
Sanitize(line) == SelectSeq(line, NotNul)

\* bufio.Scanner: a line that fills the buffer at its maximum size without a
\* newline in it ends the scan with ErrTooLong
TooLong(line) == Len(line) >= MaxScanTokenSize

\* `len(logBatch) >= 10 && s.db != nil && jobID > 0` (s.db is never nil in
\* runPipelineLogic of runner.go)
ShouldFlush(batch, id) == Len(batch) >= BatchSize /\ id > 0

\* `len(logBatch) > 0 && s.db != nil && jobID > 0`
ShouldFlushRest(batch, id) == Len(batch) > 0 /\ id > 0

\* the collectLogs call of executePipeline: a container stream of at most
\* MaxLines lines, at most MaxSpecial of them not plain, and a job id that
\* is 0 when CreateJob failed
LogInit ==
    /\ pc = "exec_logs"
    /\ RunInit
    /\ ScriptIdle
    /\ WsIdle
    /\ logPc = "get_logs"
    /\ prodPc = "idle"
    /\ \E n \in 0..MaxLines :
        \E P \in {Q \in SUBSET (1..n) : Cardinality(Q) <= MaxSpecial} :
            \E f \in [P -> 1..5] :
                emitted = [i \in 1..n |->
                             IF i \in P
                             THEN CASE f[i] = 1 -> <<>>
                                    [] f[i] = 2 -> <<NUL>>
                                    [] f[i] = 3 -> <<NUL, i>>
                                    [] f[i] = 4 -> <<i, NUL>>
                                    [] OTHER -> LongLine(i)
                             ELSE PlainLine(i)]
    /\ stream = emitted
    /\ pipe = <<>>
    /\ pipeClosed = FALSE
    /\ demuxErr = FALSE
    /\ jobID \in {0, 1}
    /\ logBatch = <<>>
    /\ persisted = <<>>

\* s.docker.GetLogs; on success the pipe is made and the StdCopy goroutine
\* is started
GetLogs ==
    /\ logPc = "get_logs"
    /\ \E err \in BOOLEAN :
        IF err
        THEN /\ logPc' = "done"
             /\ UNCHANGED prodPc
        ELSE /\ logPc' = "scan"
             /\ prodPc' = "copy"
    /\ UNCHANGED <<pc, runVars, schedVars, histVars, scriptVars, wsVars>>
    /\ UNCHANGED <<emitted, stream, pipe, pipeClosed,
                   demuxErr, jobID, logBatch, persisted>>

\* goroutine: StdCopy reads the next frame and writes it to pw; a write to
\* an io.Pipe blocks until the read side has consumed all of it
StdCopyWrite ==
    /\ prodPc = "copy"
    /\ stream # <<>>
    /\ pipe' = <<Head(stream)>>
    /\ stream' = Tail(stream)
    /\ prodPc' = "write"
    /\ UNCHANGED <<pc, runVars, schedVars, histVars, scriptVars, wsVars>>
    /\ UNCHANGED <<logPc, emitted, pipeClosed, demuxErr,
                   jobID, logBatch, persisted>>

\* goroutine: StdCopy fails on a malformed frame or a read error; the error
\* is logged and pw is closed
StdCopyError ==
    /\ prodPc = "copy"
    /\ stream # <<>>
    /\ demuxErr' = TRUE
    /\ pipeClosed' = TRUE
    /\ prodPc' = "closed"
    /\ UNCHANGED <<pc, runVars, schedVars, histVars, scriptVars, wsVars>>
    /\ UNCHANGED <<logPc, emitted, stream, pipe, jobID,
                   logBatch, persisted>>

\* goroutine: the reader is at EOF, StdCopy returns, pw.Close()
StdCopyEOF ==
    /\ prodPc = "copy"
    /\ stream = <<>>
    /\ pipeClosed' = TRUE
    /\ prodPc' = "closed"
    /\ UNCHANGED <<pc, runVars, schedVars, histVars, scriptVars, wsVars>>
    /\ UNCHANGED <<logPc, emitted, stream, pipe,
                   demuxErr, jobID, logBatch, persisted>>

\* one pass of `for scanner.Scan()` with a line in the pipe.  An over-long
\* line makes Scan return false with part of the write still unread, so the
\* writer stays blocked; otherwise the line is sanitized, skipped when empty,
\* appended to the batch, and a full batch is passed to CreateLogBatch
Scan ==
    /\ logPc = "scan"
    /\ pipe # <<>>
    /\ IF TooLong(pipe[1])
       THEN /\ logPc' = "flush"
            /\ UNCHANGED <<pipe, prodPc, logBatch, persisted>>
       ELSE /\ pipe' = <<>>
            /\ prodPc' = "copy"
            /\ logPc' = "scan"
            /\ LET cleanLine == Sanitize(pipe[1])
                   batch == Append(logBatch, cleanLine)
               IN  IF cleanLine = <<>>
                   THEN UNCHANGED <<logBatch, persisted>>
                   ELSE IF ShouldFlush(batch, jobID)
                        THEN /\ persisted' = Append(persisted, batch)
                             /\ logBatch' = <<>>
                        ELSE /\ logBatch' = batch
                             /\ UNCHANGED persisted
    /\ UNCHANGED <<pc, runVars, schedVars, histVars, scriptVars, wsVars>>
    /\ UNCHANGED <<emitted, stream, pipeClosed, demuxErr,
                   jobID>>

\* scanner.Scan() returns false: the pipe is empty and closed
ScanEOF ==
    /\ logPc = "scan"
    /\ pipe = <<>>
    /\ pipeClosed
    /\ logPc' = "flush"
    /\ UNCHANGED <<pc, runVars, schedVars, histVars, scriptVars, wsVars>>
    /\ UNCHANGED <<prodPc, emitted, stream, pipe,
                   pipeClosed, demuxErr, jobID, logBatch, persisted>>

\* "Store remaining logs", then collectLogs returns
FinalFlush ==
    /\ logPc = "flush"
    /\ persisted' = IF ShouldFlushRest(logBatch, jobID)
                    THEN Append(persisted, logBatch)
                    ELSE persisted
    /\ logPc' = "done"
    /\ UNCHANGED <<pc, runVars, schedVars, histVars, scriptVars, wsVars>>
    /\ UNCHANGED <<prodPc, emitted, stream, pipe,
                   pipeClosed, demuxErr, jobID, logBatch>>

LogNext ==
    \/ GetLogs
    \/ StdCopyWrite
    \/ StdCopyError
    \/ StdCopyEOF
    \/ Scan
    \/ ScanEOF
    \/ FinalFlush

SpecLogs == LogInit /\ [][LogNext]_vars

\* ------------------------------------------- one job script in a container
\* job.Script is a list of shell texts.  What matters of an entry is the
\* and-or list it forms: an entry is the exit statuses of its simple
\* commands, which the entry separates by `||`
Entries == UNION {[1..n -> 0..MaxExit] : n \in 1..MaxAlts}

Scripts == UNION {[1..n -> Entries] : n \in 0..MaxCmds}

\* the simple commands of entry i, each with the operator written before it;
\* the first one is reached as after a command of status 0
EntryWords(e, i) ==
    [k \in 1..Len(e) |-> [op |-> IF k = 1 THEN "&&" ELSE "||",
                          code |-> e[k], entry |-> i]]

RECURSIVE JoinFrom(_, _)
JoinFrom(commands, i) ==
    IF i > Len(commands) THEN <<>>
    ELSE EntryWords(commands[i], i) \o JoinFrom(commands, i + 1)

\* cmdString := strings.Join(commands, " && "): the entries are put side by
\* side as text, nothing groups the words of one entry
cmdString(commands) == JoinFrom(commands, 1)

\* `sh -c cmdString`: an and-or list is run from left to right, `&&` and `||`
\* have the same precedence; the word after `&&` runs when the status so far
\* is 0, the word after `||` when it is not.  The result is the last status
\* and the entries of which some command ran
RECURSIVE Sh(_, _, _, _)
Sh(words, k, status, done) ==
    IF k > Len(words) THEN [exit |-> status, ran |-> done]
    ELSE IF (words[k].op = "&&") = (status = 0)
         THEN Sh(words, k + 1, words[k].code, done \cup {words[k].entry})
         ELSE Sh(words, k + 1, status, done)

\* executePipeline has reached RunJobWithVolume for job 1, the only job of
\* stage 1, with or without a record of it
JobInit ==
    /\ pc = "exec_run"
    /\ fs = {workspaceDir}
    /\ deferred = <<workspaceDir>>
    /\ config = [j \in Jobs |-> IF j = 1 THEN 1 ELSE NotInConfig]
    /\ pipelineStatus = "running"
    /\ pipelineSuccess = FALSE
    /\ preJobs = {1}
    /\ depHist = <<"pending">>
    /\ depLog = <<>>
    /\ deployCalls = <<>>
    /\ deployResult = "none"
    /\ lastPipeline = "unqueried"
    /\ rollbackSuccess = FALSE
    /\ rbFetches = 0
    /\ stageIdx = 1
    /\ todo = {}
    /\ cur = 1
    /\ statusCode = 0
    /\ schedSuccess = TRUE
    /\ pulled = {1}
    /\ started = {}
    /\ containers = {}
    /\ outcome = [j \in Jobs |-> "none"]
    /\ \E h \in {<<>>, <<"pending", "running">>} :
        jobHist = [j \in Jobs |-> IF j = 1 THEN h ELSE <<>>]
    /\ jobExit = [j \in Jobs |-> NullExit]
    /\ dbErr = {}
    /\ abort = "none"
    /\ containerExit = 0
    /\ LogIdle
    /\ script \in Scripts
    /\ ran = {}
    /\ WsIdle

\* s.docker.RunJobWithVolume(job.Image, job.Script, workspaceDir): as
\* RunJobWithVolume above, the started container runs `sh -c cmdString`
RunScript ==
    /\ pc = "exec_run"
    /\ started' = started \cup {cur}
    /\ \E res \in {"ok", "create_failed", "start_failed"} :
        /\ containers' = IF res = "create_failed" THEN containers
                         ELSE containers \cup {cur}
        /\ IF res = "ok"
           THEN /\ pc' = "exec_wait"
                /\ containerExit' = Sh(cmdString(script), 1, 0, {}).exit
                /\ ran' = Sh(cmdString(script), 1, 0, {}).ran
                /\ UNCHANGED <<outcome, jobHist, jobExit, schedSuccess>>
           ELSE /\ JobNotStarted("start_failed")
                /\ UNCHANGED <<containerExit, ran>>
    /\ UNCHANGED <<runVars, stageIdx, todo, cur, statusCode, pulled>>
    /\ UNCHANGED <<logVars, script, wsVars>>
    /\ UNCHANGED <<dbErr, abort>>

JobNext ==
    \/ RunScript
    \/ WaitForContainer
    \/ UpdateJob

SpecJob == JobInit /\ [][JobNext]_vars

\* ------------------------------------------------- workspaces of two runs
\* the characters of a repository name: a lower-case letter, an upper-case
\* letter and one that is neither a letter nor a digit
Chars == {"a", "A", "_"}

Names == UNION {[1..n -> Chars] : n \in 1..MaxName}

\* commit hashes longer than the prefix the workspace name keeps of them;
\* they differ in their first character, in their last one, or in both
HashLen == PrefixLen + 1

LongHashes ==
    {[i \in 1..HashLen |-> IF i = 1 THEN a ELSE IF i = HashLen THEN b ELSE "0"] :
        a \in {"0", "f"}, b \in {"0", "f"}}

\* params.CommitHash and lastPipeline.CommitHash are strings of any length:
\* the empty one (git.Clone then clones the tip of the branch) and an
\* abbreviated one are among them
Hashes == LongHashes \cup {<<>>, <<"0", "f">>}

\* s[:8] of a string shorter than 8 bytes: "slice bounds out of range", a
\* run-time panic
SliceOutOfRange(hash) == Len(hash) < PrefixLen

\* strings.ToLower
ToLower(name) == [i \in 1..Len(name) |-> IF name[i] = "A" THEN "a" ELSE name[i]]

\* the characters [a-z0-9] of the regular expression
Alnum == {"a", "0"}

\* what is left of a text after a leading match of [^a-z0-9]+ is skipped
RECURSIVE SkipMatch(_)
SkipMatch(t) ==
    IF t = <<>> \/ Head(t) \in Alnum THEN t ELSE SkipMatch(Tail(t))

\* (mutation: each character other than [a-z0-9] becomes a "-" of its own)
RECURSIVE ReplaceEach(_)
ReplaceEach(t) ==
    IF t = <<>> THEN <<>>
    ELSE IF Head(t) \in Alnum
         THEN <<Head(t)>> \o ReplaceEach(Tail(t))
         ELSE <<"-">> \o ReplaceEach(Tail(t))

\* reg.ReplaceAllString(name, "-"): every maximal run of characters other
\* than [a-z0-9] becomes one "-"
RECURSIVE ReplaceAllString(_)
ReplaceAllString(t) ==
    IF t = <<>> THEN <<>>
    ELSE IF Head(t) \in Alnum
         THEN <<Head(t)>> \o ReplaceAllString(Tail(t))
         ELSE <<"-">> \o ReplaceAllString(SkipMatch(t))

\* strings.Trim(name, "-")
RECURSIVE Trim(_)
Trim(t) ==
    IF t = <<>> THEN <<>>
    ELSE IF Head(t) = "-" THEN Trim(Tail(t))
    ELSE IF t[Len(t)] = "-" THEN Trim(SubSeq(t, 1, Len(t) - 1))
    ELSE t

\* utils.SanitizeProjectName
SanitizeProjectName(name) == Trim(ReplaceAllString(ToLower(name)))

\* the arguments SanitizeProjectName is followed on: texts of the characters
\* of a name, of a digit and of the separator itself
SanChars == Chars \cup {"0", "-"}

SanNames == UNION {[1..n -> SanChars] : n \in 0..MaxInput}

SanInit ==
    /\ pc = "sanitize"
    /\ RunInit
    /\ LogIdle
    /\ ScriptIdle
    /\ clock = 0
    /\ runs = <<>>
    /\ sanName \in SanNames
    /\ sanResult = <<>>

\* utils.SanitizeProjectName(params.RepoName)
CallSanitize ==
    /\ pc = "sanitize"
    /\ sanResult' = SanitizeProjectName(sanName)
    /\ pc' = "sanitized"
    /\ UNCHANGED <<runVars, schedVars, logVars, histVars, scriptVars>>
    /\ UNCHANGED <<clock, runs, sanName>>

SanNext == CallSanitize

SpecSan == SanInit /\ [][SanNext]_vars

\* fmt.Sprintf("%s-%s-%d", utils.SanitizeProjectName(params.RepoName),
\* params.CommitHash[:8], time.Now().Unix()), the last component of
\* workspaceDir; the directories before it are the same for every run
WorkspaceName(name, hash, now) ==
    SanitizeProjectName(name) \o <<"-">> \o SubSeq(hash, 1, PrefixLen)
        \o <<"-", ToString(now)>>

\* fmt.Sprintf("%s-rollback-%s-%d", utils.SanitizeProjectName(params.RepoName),
\* rollbackParams.CommitHash[:8], time.Now().Unix())
RollbackName(name, hash, now) ==
    SanitizeProjectName(name) \o <<"-", "rollback", "-">>
        \o SubSeq(hash, 1, PrefixLen) \o <<"-", ToString(now)>>

\* the runs followed: each triggered run has its own task, nothing orders
\* the tasks and nothing limits how many are active
Runs == {1, 2}

NoRun ==
    [st |-> "idle", name |-> <<>>, hash |-> <<>>, dir |-> <<>>, rb |-> <<>>]

WsInit ==
    /\ pc = "idle"
    /\ RunInit
    /\ LogIdle
    /\ ScriptIdle
    /\ clock = 0
    /\ runs = [r \in Runs |-> NoRun]
    /\ sanName = <<>>
    /\ sanResult = <<>>

\* a second of the wall clock passes
Tick ==
    /\ clock < MaxClock
    /\ clock' = clock + 1
    /\ UNCHANGED <<pc, runVars, schedVars, logVars, histVars, scriptVars>>
    /\ UNCHANGED <<runs, sanVars>>

\* a trigger starts runPipelineLogic for some repository and commit: the
\* workspace name is computed and the repository is cloned into it
StartRun(r) ==
    /\ runs[r].st = "idle"
    /\ \E name \in Names : \E hash \in Hashes :
        runs' = [runs EXCEPT ![r] =
                    IF SliceOutOfRange(hash)
                    THEN [st |-> "panic", name |-> name, hash |-> hash,
                          dir |-> <<>>, rb |-> <<>>]
                    ELSE [st |-> "active", name |-> name, hash |-> hash,
                          dir |-> WorkspaceName(name, hash, clock),
                          rb |-> <<>>]]
    /\ UNCHANGED <<pc, runVars, schedVars, logVars, histVars, scriptVars>>
    /\ UNCHANGED <<clock, sanVars>>

\* the deployment of the run failed and a last successful pipeline is found:
\* the rollback workspace name is computed and its commit is cloned into it
StartRollback(r) ==
    /\ runs[r].st = "active"
    /\ runs[r].rb = <<>>
    /\ \E last \in Hashes :
        runs' = [runs EXCEPT ![r] =
                    IF SliceOutOfRange(last)
                    THEN [runs[r] EXCEPT !.st = "panic"]
                    ELSE [runs[r] EXCEPT
                              !.rb = RollbackName(runs[r].name, last, clock)]]
    /\ UNCHANGED <<pc, runVars, schedVars, logVars, histVars, scriptVars>>
    /\ UNCHANGED <<clock, sanVars>>

\* runPipelineLogic returns, `defer git.Cleanup(workspaceDir)` runs
EndRun(r) ==
    /\ runs[r].st = "active"
    /\ runs' = [runs EXCEPT ![r].st = "done"]
    /\ UNCHANGED <<pc, runVars, schedVars, logVars, histVars, scriptVars>>
    /\ UNCHANGED <<clock, sanVars>>

WsNext ==
    \/ Tick
    \/ \E r \in Runs : StartRun(r)
    \/ \E r \in Runs : StartRollback(r)
    \/ \E r \in Runs : EndRun(r)

SpecWs == WsInit /\ [][WsNext]_vars

\* ================================================================ claims
\* the ways a job fails in executePipeline: its image is not pulled, its
\* container does not start, or it exits with a non-zero code
JobFailed(j) == outcome[j] \in {"pull_failed", "start_failed", "exit_nonzero"}

AnyJobFailed == \E j \in Jobs : JobFailed(j)

\* the scheduler was called
ReachedJobPhase == stageIdx >= 1

RollbackDeployCalls == {i \in 1..Len(deployCalls) : deployCalls[i].dir = rollbackDir}

TerminalJobStatus == {"success", "failed"}
TerminalPipelineStatus == {"success", "failed"}
TerminalDeploymentStatus == {"success", "failed", "rolled_back"}

\* C1 (fail-fast): once a job of the run has failed (pull failure, start
\* failure or non-zero exit code), no step pulls or starts another job.
C1_FailFast ==
    [][AnyJobFailed => (pulled' = pulled /\ started' = started)]_vars

\* C2 (scenario C): all jobs succeeded, the first deployment failed, a prior
\* successful pipeline exists, rollback fetch and rollback deployment
\* succeeded: when the run has returned the deployment record is rolled_back
\* and the pipeline record is failed.
C2_ScenarioC ==
    (/\ pc = "done"
     /\ ~AnyJobFailed
     /\ deployResult = "err"
     /\ lastPipeline = "found"
     /\ rollbackSuccess)
    => (DepStatus = "rolled_back" /\ pipelineStatus = "failed")

\* C3 (workspace cleanup): when the run has returned, on whatever path, the
\* primary workspace directory does not exist.
C3_WorkspaceRemoved == pc = "done" => workspaceDir \notin fs

\* C4 (status monotonicity): a job, pipeline or deployment record that holds
\* a terminal status is never changed to a different status by a later write.
C4_Monotonic ==
    [][/\ \A j \in Jobs :
            JobStatus(j) \in TerminalJobStatus => JobStatus(j)' = JobStatus(j)
       /\ pipelineStatus \in TerminalPipelineStatus
            => pipelineStatus' = pipelineStatus
       /\ DepStatus \in TerminalDeploymentStatus => DepStatus' = DepStatus]_vars

\* C5 (wait error is fatal to the job): a job whose wait returned an error
\* and no exit code is not recorded success, and the scheduler returns false.
C5_WaitErrorFatal ==
    \A j \in Jobs :
        outcome[j] = "wait_error"
        => /\ JobStatus(j) # "success"
           /\ pc \in {"decide", "deploy"} => ~pipelineSuccess

\* C6 (rollback guard): the rollback deployment is invoked at most once; with
\* no prior successful pipeline there is no rollback fetch and no rollback
\* deployment, the run goes on to its normal end, and the deployment record
\* ends failed.
C6_RollbackGuard ==
    /\ Cardinality(RollbackDeployCalls) <= 1
    /\ rbFetches <= 1
    /\ lastPipeline = "nil"
        => /\ rbFetches = 0
           /\ RollbackDeployCalls = {}
           /\ pc \in {"set_deployment", "final", "final_deployment", "done"}
           /\ pc = "done" => DepStatus = "failed"

C6_Witness ==
    /\ pc = "done"
    /\ deployResult = "err"
    /\ lastPipeline = "nil"

\* C7 (scenario A): when a job has failed, the deployment executor is never
\* invoked, the deployment record is never set to deploying, and the pipeline
\* record ends failed.
C7_NoDeployAfterJobFailure ==
    AnyJobFailed
    => /\ deployCalls = <<>>
       /\ "deploying" \notin Range(depHist)
       /\ pc = "done" => pipelineStatus = "failed"

C7_Witness ==
    /\ pc = "done"
    /\ AnyJobFailed
    /\ DepStatus = "failed"

\* C8 (final pipeline status): after a run that reached the job phase the
\* pipeline record is success exactly when no job failed and the first
\* deployment attempt succeeded; otherwise it is failed.
C8_FinalPipelineStatus ==
    (pc = "done" /\ ReachedJobPhase)
    => /\ pipelineStatus \in TerminalPipelineStatus
       /\ pipelineStatus = "success" <=> (~AnyJobFailed /\ deployResult = "ok")

C8_Witness ==
    /\ pc = "done"
    /\ ReachedJobPhase
    /\ ~AnyJobFailed
    /\ deployResult = "err"
    /\ rollbackSuccess
    /\ pipelineStatus = "failed"

\* C10 (stage ordering): whenever a job has been pulled, every job of every
\* earlier declared stage has already reached its outcome.
C10_StageOrdering ==
    \A j \in Jobs : \A k \in pulled :
        (config[j] # NotInConfig /\ config[j] < config[k])
        => /\ outcome[j] # "none"
           /\ j # cur

C10_Witness ==
    \E j \in Jobs : \E k \in started :
        /\ config[j] # NotInConfig
        /\ config[j] < config[k]
        /\ outcome[k] = "exit_zero"

\* the lines of all batches, in flush order
RECURSIVE Flatten(_)
Flatten(batches) ==
    IF batches = <<>> THEN <<>>
    ELSE Head(batches) \o Flatten(Tail(batches))

IsNonEmpty(line) == line # <<>>

\* L1..Ln with null bytes removed and the lines left empty omitted
ExpectedLines(lines) ==
    SelectSeq([i \in 1..Len(lines) |-> SelectSeq(lines[i], NotNul)], IsNonEmpty)

\* C9 (log line ordering): when collectLogs has returned for a stream that
\* was opened and demultiplexed without error, for a job that has a record,
\* the batches passed to persistence, concatenated in flush order, are the
\* emitted lines with null bytes removed and empty lines omitted.
C9_LogOrdering ==
    (/\ logPc = "done"
     /\ prodPc # "idle"
     /\ ~demuxErr
     /\ jobID > 0)
    => Flatten(persisted) = ExpectedLines(emitted)

\* C11 (scheduler result): when executePipeline returns, it returns true
\* only if every job of the config was pulled, started and exited with code
\* 0, and it returns false if any job failed in any way, a failed wait
\* included.
C11_SchedulerResult ==
    pc = "decide"
    => /\ pipelineSuccess
            => \A j \in ConfigJobs(config) :
                   /\ j \in pulled
                   /\ j \in started
                   /\ outcome[j] = "exit_zero"
       /\ (\E j \in Jobs : JobFailed(j) \/ outcome[j] = "wait_error")
            => ~pipelineSuccess

\* C12 (non-zero exit stops the scheduler): once the record of a job that
\* exited with a non-zero code is written, the record is failed with that
\* exit code, executePipeline has returned false, and no other job has been
\* picked since.
C12_NonZeroExitStops ==
    \A j \in Jobs :
        (outcome[j] = "exit_nonzero" /\ pc # "exec_update")
        => /\ cur = j
           /\ statusCode # 0
           /\ HasRecord(j) => (JobStatus(j) = "failed" /\ jobExit[j] = statusCode)
           /\ pc \in {"decide", "final", "final_deployment", "done"}
           /\ ~pipelineSuccess
           /\ deployCalls = <<>>

C12_Witness ==
    \E j \in Jobs : \E k \in ConfigJobs(config) :
        /\ outcome[j] = "exit_nonzero"
        /\ HasRecord(j)
        /\ outcome[k] = "none"
        /\ k \notin pulled
        /\ pc = "done"

\* the exit status of one entry run on its own
EntryExit(e) == Sh(EntryWords(e, 1), 1, 0, {}).exit

\* the first entry of the script that exits non-zero, 0 when there is none
FirstFailing(commands) ==
    IF \A i \in 1..Len(commands) : EntryExit(commands[i]) = 0 THEN 0
    ELSE CHOOSE i \in 1..Len(commands) :
             /\ EntryExit(commands[i]) # 0
             /\ \A k \in 1..(i - 1) : EntryExit(commands[k]) = 0

\* C13 (command sequence): of a script run as one container, when some entry
\* exits non-zero no command of a later entry runs, and once the job's record
\* is updated it is failed with a non-zero exit code; when every entry exits
\* zero the record is success with exit code 0.
C13_CommandSequence ==
    (cur # NoJob /\ cur \in containers /\ pc # "exec_run")
    => /\ FirstFailing(script) # 0
            => \A i \in ran : i <= FirstFailing(script)
       /\ (pc # "exec_wait" /\ pc # "exec_update" /\ HasRecord(cur)
           /\ outcome[cur] # "start_failed")
            => IF FirstFailing(script) # 0
               THEN jobExit[cur] # 0 /\ JobStatus(cur) = "failed"
               ELSE jobExit[cur] = 0 /\ JobStatus(cur) = "success"

\* C14 (persistence errors are swallowed): a run in which a Create* call
\* returned an error still reaches the scheduler before it returns.
C14_PersistenceSwallowed ==
    (pc = "done" /\ dbErr # {}) => ReachedJobPhase

\* C15 (workspace uniqueness): two runs that are active at the same time
\* have different workspace paths.
C15_WorkspaceUnique ==
    \A r1 \in Runs : \A r2 \in Runs :
        (r1 # r2 /\ runs[r1].st = "active" /\ runs[r2].st = "active")
        => runs[r1].dir # runs[r2].dir

\* C16 (fetch and config errors abort the run): when the clone fails, the
\* config file is missing or its parsing fails, the run has returned with
\* pipeline status failed, and no job record, no deployment record, no call
\* of the scheduler and no call of the deployment exists.
C16_FetchConfigAbort ==
    abort # "none"
    => /\ pc = "done"
       /\ pipelineStatus = "failed"
       /\ preJobs = {}
       /\ \A j \in Jobs : jobHist[j] = <<>>
       /\ depHist = <<>>
       /\ ~ReachedJobPhase
       /\ pulled = {} /\ started = {}
       /\ deployCalls = <<>>

C16_Witness ==
    /\ abort = "parse"
    /\ pc = "done"
    /\ pipelineStatus = "failed"
    /\ workspaceDir \notin fs

\* C17 (no running status for a job that never started): the record of a
\* job whose pull or start failed holds pending, then failed, and the
\* sentinel exit code; running was never written to it.
C17_NeverRunning ==
    \A j \in Jobs :
        (outcome[j] \in {"pull_failed", "start_failed"} /\ HasRecord(j))
        => /\ jobHist[j] = <<"pending", "failed">>
           /\ jobExit[j] = SentinelExit

\* C18 (rollback workspace independence): the rollback workspace is another
\* path than the primary one, the primary workspace exists as long as the
\* run has not returned, the rollback deployment included, and when the run
\* has returned no rollback workspace directory is left, whatever the
\* rollback fetch and the rollback deployment gave.
C18_RollbackWorkspace ==
    /\ rollbackDir # workspaceDir
    /\ (rbFetches > 0 /\ pc # "done") => workspaceDir \in fs
    /\ pc = "done" => rollbackDir \notin fs

\* the rollback fetch returned without error: its cleanup is deferred
RollbackFetched == rollbackDir \in Range(deferred)

RollbackMarker == "=== ROLLBACK STARTED ===" \in Range(depLog)

\* C20 (rollback step ordering): the marker is in the deployment log exactly
\* when the rollback fetch succeeded, and it is there before the rollback
\* deployment is invoked; the rollback deployment gets the rollback workspace
\* and the run parameters with only the commit hash replaced by the last
\* successful pipeline's; after a failed rollback fetch there is no rollback
\* deployment and the deployment record ends failed.
C20_RollbackOrdering ==
    /\ pc # "rollback_log" => (RollbackMarker <=> RollbackFetched)
    /\ pc = "rollback_log" => (RollbackFetched /\ Len(deployCalls) = 1)
    /\ \A i \in 2..Len(deployCalls) :
           /\ RollbackMarker
           /\ deployCalls[i].dir = rollbackDir
           /\ deployCalls[i].args.CommitHash = LastCommitHash
           /\ \A f \in DOMAIN params \ {"CommitHash"} :
                  deployCalls[i].args[f] = params[f]
    /\ Len(deployCalls) <= 2
    /\ (rbFetches > 0 /\ ~RollbackFetched)
           => /\ Len(deployCalls) = 1
              /\ pc = "done" => DepStatus = "failed"

C20_Witness ==
    /\ pc = "done"
    /\ RollbackMarker
    /\ Len(deployCalls) = 2
    /\ deployCalls[2].dir = rollbackDir
    /\ deployCalls[2].args.CommitHash = LastCommitHash

\* C19 (demultiplexer backpressure): as long as the container has output
\* left and the producer has not stopped, the producer can take the next
\* chunk of it without a step of the line consumer.
C19_ProducerNeverBlocked ==
    (prodPc \in {"copy", "write"} /\ stream # <<>>) => ENABLED StdCopyWrite

\* C21 (batch bound): the pending batch of collectLogs never holds more than
\* 10 lines, a batch passed to CreateLogBatch inside the loop holds exactly
\* 10 lines, the batch of the final flush holds 1 to 10 lines and no batch is
\* empty, for a job id of 0 as well.
C21_BatchBound ==
    /\ Len(logBatch) <= BatchSize
    /\ \A i \in 1..Len(persisted) :
           /\ Len(persisted[i]) \in 1..BatchSize
           /\ (i < Len(persisted) \/ logPc # "done")
                  => Len(persisted[i]) = BatchSize

\* C22 (terminal pipeline status on return): when runPipelineLogic has
\* returned, on whatever path, the pipeline record is success or failed.
C22_TerminalOnReturn == pc = "done" => pipelineStatus \in TerminalPipelineStatus

\* executePipeline has returned to runPipelineLogic
SchedulerReturned ==
    pc \in {"decide", "deploy", "rollback_lookup", "rollback_clone",
            "rollback_log", "rollback_deploy", "set_deployment", "final",
            "final_deployment", "done"}

\* C23 (container release): once executePipeline has returned, every
\* container it created, started or not, has been removed.
C23_ContainersReleased == SchedulerReturned => containers = {}

\* C24 (log collection leaves no stuck task): when collectLogs has returned,
\* its producer goroutine is not blocked in a write to the pipe, which nobody
\* reads any more.
C24_NoStuckProducer == logPc = "done" => prodPc # "write"

\* C25 (SanitizeProjectName): the result holds only characters of a-z, 0-9
\* and "-", neither starts nor ends with "-", holds no two "-" side by
\* side, and sanitizing it again gives it back.
C25_SanitizeProjectName ==
    pc = "sanitized"
    => /\ \A i \in 1..Len(sanResult) : sanResult[i] \in {"a", "0", "-"}
       /\ sanResult # <<>>
              => (sanResult[1] # "-" /\ sanResult[Len(sanResult)] # "-")
       /\ \A i \in 1..(Len(sanResult) - 1) :
              ~(sanResult[i] = "-" /\ sanResult[i + 1] = "-")
       /\ SanitizeProjectName(sanResult) = sanResult

C25_Witness ==
    /\ pc = "sanitized"
    /\ sanName = <<"A", "_", "-", "0">>
    /\ sanResult = <<"a", "-", "0">>

\* C26 (workspace naming is defined for every commit hash): no run ends in
\* a panic while it derives its primary or its rollback workspace name,
\* whatever the triggering commit hash and the last successful pipeline's.
C26_NamingDefined == \A r \in Runs : runs[r].st # "panic"

====
